---- MODULE Spec2Model ----
(***************************************************************************)
(* Model of antigine's project ledger (ProjectLedgerManager over the       *)
(* SQLite schema of core/database.py) and of the feature request workflow  *)
(* (FeatureRequestAgent and the CLI command that drives it).               *)
(*                                                                         *)
(* Text values whose characters the code inspects (feature ids, project    *)
(* initials) are tuples of one-character strings, so that formatting       *)
(* (f"{initials}-{n:03d}"), str.split, int(), SQL LIKE / SUBSTR / CAST are  *)
(* computed as the code computes them.  Timestamps (datetime.now()) are    *)
(* readings of a clock that never runs backwards.  A nullable column or an *)
(* Optional argument holds None (the empty tuple) or Some(v) (<<v>>).      *)
(* title, description and keywords are stored verbatim and never read by   *)
(* the ledger operations: the rows of the model leave them out.            *)
(***************************************************************************)
EXTENDS Integers, Sequences, FiniteSets, TLC

VARIABLES
    features,    \* table features: feature_id -> row
    relations,   \* table feature_relations: rows in AUTOINCREMENT order
    documents,   \* table feature_documents: rows in AUTOINCREMENT order
    clock,       \* latest reading of datetime.now()
    manager,     \* self.project_initials of the live ProjectLedgerManager
    last,        \* the last completed ledger call: arguments and outcome
    returned,    \* ids returned by add_feature, in call order
    pc,          \* per concurrent caller: where it is inside its call
    frame,       \* per concurrent caller: the locals of its call
    state,       \* the FeatureRequestState of the workflow run
    node,        \* the node of the workflow graph (or the CLI step) to run next
    workflow,    \* the workflow run: its number, the ledger it found, its path
    probe        \* a direct call of a helper: its arguments and its result

ledger == <<features, relations, documents>>
vars == <<features, relations, documents, clock, manager, last, returned, pc, frame,
          state, node, workflow, probe>>

----------------------------------------------------------------------------
(* Bounds of the model *)

MaxFeatures == 2
MaxClock == 1
MaxCalls == 3

----------------------------------------------------------------------------
(* Python / SQL values *)

None == << >>
Some(v) == <<v>>
NoKey == "<no key>"
DictGet(v, default) == IF v = NoKey THEN default ELSE v

TP == <<"T", "P">>
T == <<"T">>
Initials == {TP, T}

Digit == <<"0", "1", "2", "3", "4", "5", "6", "7", "8", "9">>
IsDigit(c) == \E d \in 1..10 : Digit[d] = c
DigitVal(c) == (CHOOSE d \in 1..10 : Digit[d] = c) - 1

RECURSIVE DecStr(_)
DecStr(n) == IF n < 10 THEN <<Digit[n + 1]>>
             ELSE DecStr(n \div 10) \o <<Digit[(n % 10) + 1]>>

RECURSIVE ZeroPad(_, _)
ZeroPad(s, width) == IF Len(s) >= width THEN s ELSE ZeroPad(<<"0">> \o s, width)

\* the format spec :03d
Fmt03dNoPad(n) == DecStr(n)
Fmt03d(n) == ZeroPad(DecStr(n), 3)

MakeFeatureId(initials, n) == initials \o <<"-">> \o Fmt03d(n)

\* str.split("-"): the segments between hyphens
RECURSIVE SplitDash(_)
SplitDash(s) ==
    IF \A i \in 1..Len(s) : s[i] # "-" THEN <<s>>
    ELSE LET k == CHOOSE i \in 1..Len(s) : s[i] = "-" /\ \A j \in 1..(i - 1) : s[j] # "-"
         IN  <<SubSeq(s, 1, k - 1)>> \o SplitDash(SubSeq(s, k + 1, Len(s)))

\* int() of a string of decimal digits
RECURSIVE PyInt(_)
PyInt(s) == IF Len(s) = 0 THEN 0
            ELSE 10 * PyInt(SubSeq(s, 1, Len(s) - 1)) + DigitVal(s[Len(s)])

\* SQL SUBSTR(s, start): from the 1-based position start to the end
SqlSubstr(s, start) == SubSeq(s, start, Len(s))

\* SQL CAST(s AS INTEGER): the longest leading run of digits, 0 when there is none
SqlCastInteger(s) ==
    LET run == {k \in 0..Len(s) : \A i \in 1..k : IsDigit(s[i])}
        n == CHOOSE k \in run : \A j \in run : j <= k
    IN  PyInt(SubSeq(s, 1, n))

\* feature_id LIKE '<initials>-%' (initials of letters only: no wildcard in them)
SqlLikeInitials(s, initials) ==
    /\ Len(s) >= Len(initials) + 1
    /\ SubSeq(s, 1, Len(initials) + 1) = initials \o <<"-">>

----------------------------------------------------------------------------
(* The schema: CHECK, NOT NULL, PRIMARY KEY and FOREIGN KEY constraints *)

FeatureTypes == {"new_feature", "bug_fix", "refactor", "enhancement"}
FeatureStatuses == {"requested", "in_review", "awaiting_implementation",
                    "awaiting_validation", "validated", "superseded"}
RelationTypes == {"builds_on", "supersedes", "refactors", "fixes"}
DocumentTypes == {"feature_request", "technical_architecture_specification",
                  "feature_implementation_plan"}

FeatureRowOkNoPrimaryKey(feats, fid, row) ==
    /\ row.type \in FeatureTypes
    /\ row.status \in FeatureStatuses

FeatureRowOk(feats, fid, row) ==
    /\ fid \notin DOMAIN feats
    /\ row.type \in FeatureTypes
    /\ row.status \in FeatureStatuses

ForeignKeysOff(feats, ids) == TRUE
\* PRAGMA foreign_keys = ON: every referencing column names a features row
ForeignKeysOk(feats, ids) == \A id \in ids : id \in DOMAIN feats

RelationRowOk(feats, rel) ==
    /\ rel.relation_type \in RelationTypes
    /\ ForeignKeysOk(feats, {rel.feature_id, rel.target_id})

DocumentRowOk(feats, doc) ==
    /\ doc.document_type \in DocumentTypes
    /\ ForeignKeysOk(feats, {doc.feature_id})

----------------------------------------------------------------------------
(* add_feature *)

\* The rows the scan may return: ORDER BY CAST(SUBSTR(feature_id,
\* LENGTH(initials) + 2) AS INTEGER) DESC LIMIT 1 over the rows LIKE 'initials-%'
\* (rows of equal sort key come in an order SQLite does not fix).
LastFeatureRows(feats, initials) ==
    LET matching == {id \in DOMAIN feats : SqlLikeInitials(id, initials)}
        key(id) == SqlCastInteger(SqlSubstr(id, Len(initials) + 2))
    IN  {id \in matching : \A other \in matching : key(other) <= key(id)}

\* A scan that never finds a row
NextFeatureNumStuck(feats, initials) == {1}

\* new_feature_num: int(last_feature[0].split("-")[1]) + 1, or 1 on an empty scan
NextFeatureNum(feats, initials) ==
    IF LastFeatureRows(feats, initials) = {} THEN {1}
    ELSE {PyInt(SplitDash(id)[2]) + 1 : id \in LastFeatureRows(feats, initials)}

\* The ids the scan-for-maximum may compute
NextFeatureIds(feats, initials) ==
    {MakeFeatureId(initials, n) : n \in NextFeatureNum(feats, initials)}

\* feature_data.get("status", "requested")
InitialStatus(data) == DictGet(data.status, "requested")

\* The VALUES of INSERT INTO features
NewFeatureRow(data, now) ==
    [type |-> DictGet(data.type, "new_feature"),
     status |-> InitialStatus(data),
     date_created |-> now,
     date_implemented |-> None,
     date_superseded |-> None,
     commit_hash |-> None,
     changed_files |-> None]

\* The loop over feature_data["relations"]: one INSERT per relation, stopping at
\* the first statement that raises
RECURSIVE InsertRelations(_, _, _, _)
InsertRelations(feats, rels, fid, list) ==
    IF list = << >> THEN [ok |-> TRUE, relations |-> rels]
    ELSE LET rel == [feature_id |-> fid,
                     relation_type |-> Head(list).type,
                     target_id |-> Head(list).target_id]
         IN  IF RelationRowOk(feats, rel)
             THEN InsertRelations(feats, Append(rels, rel), fid, Tail(list))
             ELSE [ok |-> FALSE, relations |-> rels]

RollbackSkipped(before, dirty) == dirty
\* conn.rollback(): the database as it was when the transaction began
Rollback(before, dirty) == before

\* Lines 99-127 on a connection whose scan computed fid: the INSERT of the feature
\* row, the INSERTs of its relations, then commit, or rollback and raise.
InsertFeatureTxn(feats, rels, fid, data, now) ==
    LET row == NewFeatureRow(data, now)
        before == [features |-> feats, relations |-> rels]
    IN  IF ~FeatureRowOk(feats, fid, row)
        THEN [raised |-> TRUE, db |-> Rollback(before, before)]
        ELSE LET feats1 == feats @@ (fid :> row)
                 ins == InsertRelations(feats1, rels, fid, data.relations)
                 dirty == [features |-> feats1, relations |-> ins.relations]
             IN  IF ins.ok THEN [raised |-> FALSE, db |-> dirty]
                 ELSE [raised |-> TRUE, db |-> Rollback(before, dirty)]

----------------------------------------------------------------------------
(* Inputs *)

TP001 == MakeFeatureId(TP, 1)
TP999 == MakeFeatureId(TP, 999)

Plain == [type |-> "new_feature", status |-> NoKey, relations |-> << >>]
BuildsOn == [type |-> "builds_on", target_id |-> TP001]

FeatureData ==
    {Plain,
     [Plain EXCEPT !.type = "bug_fix"],
     [Plain EXCEPT !.type = "spike"],
     [Plain EXCEPT !.status = "validated"],
     [Plain EXCEPT !.status = "done"],
     [Plain EXCEPT !.relations = <<BuildsOn>>],
     [Plain EXCEPT !.relations = <<BuildsOn, [type |-> "duplicate", target_id |-> TP001]>>],
     [Plain EXCEPT !.relations = <<BuildsOn, [type |-> "fixes", target_id |-> TP999]>>]}

----------------------------------------------------------------------------
(* The state after setup: an empty ledger.db and a freshly built manager *)

Idle == "idle"
Callers == {1, 2}
NoFrame == [op |-> "none"]

NoCall == [n |-> 0, op |-> "none", args |-> None, raised |-> FALSE, id |-> None,
           ok |-> FALSE, changed |-> FALSE]

\* What a completed call leaves in last: its name and arguments, whether it raised,
\* the id or the truth value it returned, and whether the tables it committed
\* (after) differ from the tables it found (before).
Call(op, args, raised, id, ok, before, after) ==
    [n |-> last.n + 1, op |-> op, args |-> args, raised |-> raised, id |-> id,
     ok |-> ok, changed |-> (after # before)]

LedgerInit ==
    /\ features = << >>
    /\ relations = << >>
    /\ documents = << >>
    /\ clock = 0
    /\ manager \in Initials
    /\ last = NoCall
    /\ returned = << >>
    /\ pc = [c \in Callers |-> Idle]
    /\ frame = [c \in Callers |-> NoFrame]

\* The model follows MaxCalls calls, those in flight included
InFlight == {c \in Callers : pc[c] # Idle}
CanCall == last.n + Cardinality(InFlight) < MaxCalls

\* ProjectLedgerManager(project_folder) built anew; project.json holds initials
NewManager(initials) ==
    /\ CanCall
    /\ InFlight = {}
    /\ manager' = initials
    /\ last' = Call("__init__", [project_initials |-> initials], FALSE, None, FALSE,
                    ledger, ledger)
    /\ UNCHANGED <<features, relations, documents, clock, returned, pc, frame, state, node, workflow, probe>>

\* add_feature(feature_data), the whole call; now is its reading of datetime.now()
AddFeature(data, now) ==
    /\ CanCall
    /\ now \in clock..MaxClock
    /\ \E fid \in NextFeatureIds(features, manager) :
         LET txn == InsertFeatureTxn(features, relations, fid, data, now)
         IN  /\ txn.raised \/ Cardinality(DOMAIN features) < MaxFeatures
             /\ features' = txn.db.features
             /\ relations' = txn.db.relations
             /\ last' = Call("add_feature", data, txn.raised,
                             IF txn.raised THEN None ELSE fid, ~txn.raised,
                             ledger, <<txn.db.features, txn.db.relations, documents>>)
             /\ returned' = IF txn.raised THEN returned ELSE Append(returned, fid)
    /\ clock' = now
    /\ UNCHANGED <<documents, manager, pc, frame, state, node, workflow, probe>>

----------------------------------------------------------------------------
(* update_feature_status, mark_feature_implemented, mark_feature_superseded *)

NoneStr == "<None>"   \* an Optional[str] argument left at None
TimestampFields == {"date_implemented", "date_superseded"}

\* timestamp_field and timestamp_field in ('date_implemented', 'date_superseded')
StampsField(timestamp_field) ==
    timestamp_field # NoneStr /\ timestamp_field \in TimestampFields

StatusUpdatedRowNoStamp(row, status, timestamp_field, now) ==
    [row EXCEPT !.status = status]

\* The SET clause of the UPDATE that update_feature_status runs
StatusUpdatedRow(row, status, timestamp_field, now) ==
    IF StampsField(timestamp_field) /\ timestamp_field = "date_implemented"
    THEN [row EXCEPT !.status = status, !.date_implemented = Some(now)]
    ELSE IF StampsField(timestamp_field) /\ timestamp_field = "date_superseded"
    THEN [row EXCEPT !.status = status, !.date_superseded = Some(now)]
    ELSE [row EXCEPT !.status = status]

\* json.dumps(changed_files) if changed_files else None
ChangedFilesColumn(changed_files) ==
    IF changed_files = None \/ changed_files = Some(<< >>) THEN None ELSE changed_files

\* An UPDATE that leaves commit_hash and changed_files out
ImplementedRowNoDetails(row, commit_hash, changed_files, now) ==
    [row EXCEPT !.status = "validated", !.date_implemented = Some(now)]

\* The SET clause of the UPDATE that mark_feature_implemented runs
ImplementedRow(row, commit_hash, changed_files, now) ==
    [row EXCEPT !.status = "validated",
                !.date_implemented = Some(now),
                !.commit_hash = commit_hash,
                !.changed_files = ChangedFilesColumn(changed_files)]

\* UPDATE features SET ... WHERE feature_id = fid, then commit. updated is the
\* table with the SET clause applied to the rows of that id: it replaces the table
\* unless a new row violates a CHECK (the statement raises and nothing is
\* written), and the call returns cursor.rowcount > 0.
UpdateFeatureRow(op, args, fid, updated) ==
    LET hit == {f \in DOMAIN features : f = fid}
    IN  /\ IF \E f \in hit : updated[f].status \notin FeatureStatuses
           THEN /\ features' = features
                /\ last' = Call(op, args, TRUE, None, FALSE, features, features)
           ELSE /\ features' = IF hit = {} THEN features ELSE updated
                /\ last' = Call(op, args, FALSE, None, Cardinality(hit) > 0,
                                features, IF hit = {} THEN features ELSE updated)
        /\ UNCHANGED <<relations, documents, manager, returned, pc, frame, state, node, workflow, probe>>

UpdateFeatureStatusAs(op, fid, status, timestamp_field, now) ==
    /\ CanCall
    /\ IF StampsField(timestamp_field) THEN now \in clock..MaxClock ELSE now = clock
    /\ clock' = now
    /\ UpdateFeatureRow(op, [feature_id |-> fid, status |-> status,
                             timestamp_field |-> timestamp_field],
                        fid,
                        [f \in DOMAIN features |->
                            IF f = fid
                            THEN StatusUpdatedRow(features[f], status, timestamp_field, now)
                            ELSE features[f]])

UpdateFeatureStatus(fid, status, timestamp_field, now) ==
    UpdateFeatureStatusAs("update_feature_status", fid, status, timestamp_field, now)

MarkFeatureSuperseded(fid, now) ==
    UpdateFeatureStatusAs("mark_feature_superseded", fid, "superseded", "date_superseded", now)

MarkFeatureImplemented(fid, commit_hash, changed_files, now) ==
    /\ CanCall
    /\ now \in clock..MaxClock
    /\ clock' = now
    /\ UpdateFeatureRow("mark_feature_implemented",
                        [feature_id |-> fid, commit_hash |-> commit_hash,
                         changed_files |-> changed_files],
                        fid,
                        [f \in DOMAIN features |->
                            IF f = fid
                            THEN ImplementedRow(features[f], commit_hash, changed_files, now)
                            ELSE features[f]])

\* Arguments of the calls on an existing feature (TP-001 once it is added) and on
\* an id the ledger never holds (TP-999)
FeatureIdArgs == {TP001, TP999}

StatusUpdateArgs ==
    [feature_id : {TP001},
     status : {"in_review", "requested", "done"},
     timestamp_field : {NoneStr}]
    \cup [feature_id : {TP001},
          status : {"in_review"},
          timestamp_field : {"date_created", "date_superseded"}]
    \cup [feature_id : FeatureIdArgs,
          status : {"validated"},
          timestamp_field : {"date_implemented"}]

ImplementationArgs ==
    [feature_id : {TP001},
     commit_hash : {Some("abc123def")},
     changed_files : {Some(<< >>), Some(<<"src/main.cpp">>)}]
    \cup [feature_id : FeatureIdArgs, commit_hash : {None}, changed_files : {None}]

----------------------------------------------------------------------------
(* add_feature_document *)

\* SELECT id FROM feature_documents WHERE feature_id = ? AND document_type = ?
DocumentRows(docs, fid, document_type) ==
    {i \in 1..Len(docs) : docs[i].feature_id = fid /\ docs[i].document_type = document_type}

WriteDocumentAlwaysInsert(feats, docs, exists, fid, document_type, content, now) ==
    LET doc == [feature_id |-> fid, document_type |-> document_type,
                content |-> content, created_at |-> now, updated_at |-> now]
    IN  IF DocumentRowOk(feats, doc)
        THEN [raised |-> FALSE, documents |-> Append(docs, doc)]
        ELSE [raised |-> TRUE, documents |-> docs]

\* The write of add_feature_document after its SELECT found (exists) or did not
\* find a row of the key: UPDATE content and updated_at of the rows of the key,
\* or INSERT a row; raised when the INSERT violates a constraint.
WriteDocument(feats, docs, exists, fid, document_type, content, now) ==
    IF exists
    THEN [raised |-> FALSE,
          documents |-> [i \in 1..Len(docs) |->
                            IF i \in DocumentRows(docs, fid, document_type)
                            THEN [docs[i] EXCEPT !.content = content, !.updated_at = now]
                            ELSE docs[i]]]
    ELSE LET doc == [feature_id |-> fid, document_type |-> document_type,
                     content |-> content, created_at |-> now, updated_at |-> now]
         IN  IF DocumentRowOk(feats, doc)
             THEN [raised |-> FALSE, documents |-> Append(docs, doc)]
             ELSE [raised |-> TRUE, documents |-> docs]

\* add_feature_document(feature_id, document_type, content), the whole call
AddFeatureDocument(fid, document_type, content, now) ==
    /\ CanCall
    /\ now \in clock..MaxClock
    /\ clock' = now
    /\ LET exists == DocumentRows(documents, fid, document_type) # {}
           w == WriteDocument(features, documents, exists, fid, document_type, content, now)
       IN  /\ documents' = w.documents
           /\ last' = Call("add_feature_document",
                           [feature_id |-> fid, document_type |-> document_type,
                            content |-> content],
                           w.raised, None, ~w.raised, documents, w.documents)
    /\ UNCHANGED <<features, relations, manager, returned, pc, frame, state, node, workflow, probe>>

DocumentArgs ==
    [feature_id : {TP001}, document_type : {"feature_request"}, content : {"v1", "v2"}]
    \cup [feature_id : FeatureIdArgs, document_type : {"feature_request", "notes"},
          content : {"v1"}]

----------------------------------------------------------------------------------------------------------------------------------------------------
(* get_feature_by_id *)

\* json.loads(feature["changed_files"]) if feature["changed_files"] else []
ChangedFilesValue(column) == IF column = None THEN << >> ELSE column[1]

\* documents[doc_type] is assigned once per row in ORDER BY document_type,
\* updated_at DESC, so the row that comes last stays: one of the least updated_at
\* (rows of equal updated_at come in an order SQLite does not fix).
DocumentsValue(docs, fid) ==
    [dt \in {docs[i].document_type : i \in {k \in 1..Len(docs) : docs[k].feature_id = fid}} |->
        {[content |-> docs[i].content, created_at |-> docs[i].created_at,
          updated_at |-> docs[i].updated_at] :
            i \in {k \in DocumentRows(docs, fid, dt) :
                     \A j \in DocumentRows(docs, fid, dt) : docs[k].updated_at <= docs[j].updated_at}}]

\* get_feature_by_id(feature_id): None, or Some(the row with its relations and
\* its documents; under each document type the contents the dict may hold)
GetFeatureById(fid) ==
    IF fid \notin DOMAIN features THEN None
    ELSE LET row == features[fid]
             rels == SelectSeq(relations, LAMBDA r : r.feature_id = fid)
         IN  Some([feature_id |-> fid,
                   type |-> row.type,
                   status |-> row.status,
                   date_created |-> row.date_created,
                   date_implemented |-> row.date_implemented,
                   date_superseded |-> row.date_superseded,
                   commit_hash |-> row.commit_hash,
                   changed_files |-> ChangedFilesValue(row.changed_files),
                   relations |-> [i \in 1..Len(rels) |->
                                     [type |-> rels[i].relation_type,
                                      target_id |-> rels[i].target_id]],
                   documents |-> DocumentsValue(documents, fid)])

----------------------------------------------------------------------------
(* get_feature_statistics *)

\* COUNT(DISTINCT column) in place of COUNT(*)
GroupCountDistinct(feats, column) ==
    [v \in {feats[f][column] : f \in DOMAIN feats} |-> 1]

\* dict of SELECT column, COUNT(*) FROM features GROUP BY column: one entry per
\* value some row holds
GroupCount(feats, column) ==
    [v \in {feats[f][column] : f \in DOMAIN feats} |->
        Cardinality({f \in DOMAIN feats : feats[f][column] = v})]

\* get_feature_statistics(), the whole call: three SELECTs on one connection
GetFeatureStatistics ==
    /\ CanCall
    /\ probe' = [call |-> "get_feature_statistics",
                 result |-> [by_status |-> GroupCount(features, "status"),
                             by_type |-> GroupCount(features, "type"),
                             total_features |-> Cardinality(DOMAIN features)]]
    /\ UNCHANGED <<ledger, clock, manager, returned, pc, frame, state, node, workflow>>
    /\ last' = Call("get_feature_statistics", None, FALSE, None, TRUE, ledger, ledger')

----------------------------------------------------------------------------
(* FeatureRequestAgent: the workflow state, the oracles and the nodes.       *)
(* Scores (confidence, similarity, distance) are counted in hundredths.     *)
(* The fields of FeatureRequestState that no node and no edge reads (title, *)
(* description, validation_issues, validation_suggestions, project_root,    *)
(* db_path, gdd_context) are left out.                                      *)

MaxRuns == 2

\* The score 1.0
One == 100

END == "__end__"

\* initial_state of process_feature_request
InitialState(feature_type) ==
    [feature_type |-> feature_type,
     is_valid |-> FALSE,
     confidence_score |-> 0,
     similar_features |-> << >>,
     potential_relationships |-> << >>,
     user_approved |-> FALSE,
     relationship_confirmations |-> << >>,
     feature_id |-> None,
     stored_successfully |-> FALSE,
     current_stage |-> "validation",
     retry_count |-> 0,
     max_retries |-> 3,
     error_message |-> None]

\* What llm_manager.generate_response and _parse_validation_response give
\* _validate_request_node: an exception, or a ValidationResult
ValidationRaises == [raised |-> TRUE, is_complete |-> FALSE, confidence_score |-> 0]
Validation(is_complete, confidence_score) ==
    [raised |-> FALSE, is_complete |-> is_complete, confidence_score |-> confidence_score]

\* The fallback ValidationResult of a response that is no JSON
ParseFallback == Validation(FALSE, 30)

ValidationOutcomes ==
    {ValidationRaises, ParseFallback, Validation(TRUE, 90), Validation(TRUE, 65),
     Validation(TRUE, 70), Validation(FALSE, 80)}

\* A validation node whose except clause records nothing
ValidateRequestNodeNoExcept(st, outcome) ==
    [st EXCEPT !.current_stage = "validation",
               !.is_valid = outcome.is_complete,
               !.confidence_score = outcome.confidence_score]

\* _validate_request_node
ValidateRequestNode(st, outcome) ==
    IF outcome.raised
    THEN [st EXCEPT !.current_stage = "validation",
                    !.error_message = Some("Validation failed"),
                    !.is_valid = FALSE,
                    !.confidence_score = 0]
    ELSE [st EXCEPT !.current_stage = "validation",
                    !.is_valid = outcome.is_complete,
                    !.confidence_score = outcome.confidence_score]

\* An edge that takes confidence 0.7 for too low
ShouldProceedAbove(st) ==
    IF st.error_message # None
    THEN IF st.retry_count < st.max_retries THEN "retry" ELSE "end"
    ELSE IF st.is_valid /\ st.confidence_score > 70 THEN "proceed"
         ELSE IF st.retry_count < st.max_retries THEN "retry" ELSE "end"

\* _should_proceed_after_validation
ShouldProceedAfterValidation(st) ==
    IF st.error_message # None
    THEN IF st.retry_count < st.max_retries THEN "retry" ELSE "end"
    ELSE IF st.is_valid /\ st.confidence_score >= 70 THEN "proceed"
         ELSE IF st.retry_count < st.max_retries THEN "retry" ELSE "end"

\* similarity_score = max(0.0, 1.0 - distance)
SimilarityOf(distance) == IF One - distance > 0 THEN One - distance ELSE 0

\* similar_features.sort(key=similarity_score, reverse=True): a stable sort
RECURSIVE SortBySimilarity(_)
SortBySimilarity(s) ==
    IF Len(s) <= 1 THEN s
    ELSE LET rest == SortBySimilarity(Tail(s))
             ahead == SelectSeq(rest, LAMBDA r : r.similarity_score > Head(s).similarity_score)
             behind == SelectSeq(rest, LAMBDA r : r.similarity_score <= Head(s).similarity_score)
         IN  ahead \o <<Head(s)>> \o behind

\* SemanticSearchEngine.find_similar_features(text, "feature_request", 0.7, 10)
\* on what collection.query gives: an exception, or rows in order of distance
FindSimilarFeatures(query) ==
    IF query.raised THEN << >>
    ELSE LET scored == [i \in 1..Len(query.rows) |->
                          [feature_id |-> query.rows[i].feature_id,
                           similarity_score |-> SimilarityOf(query.rows[i].distance)]]
             kept == SortBySimilarity(SelectSeq(scored, LAMBDA r : r.similarity_score >= 70))
         IN  SubSeq(kept, 1, IF Len(kept) < 10 THEN Len(kept) ELSE 10)

QueryRaises == [raised |-> TRUE, rows |-> << >>]
QueryRows(rows) == [raised |-> FALSE, rows |-> rows]

\* Answers of the ChromaDB collection; it may name a feature the ledger lacks
ChromaQueries ==
    {QueryRaises,
     QueryRows(<< >>),
     QueryRows(<<[feature_id |-> TP001, distance |-> 5]>>),
     QueryRows(<<[feature_id |-> TP001, distance |-> 18]>>),
     QueryRows(<<[feature_id |-> TP001, distance |-> 10],
                 [feature_id |-> TP999, distance |-> 50]>>)}

\* A search node that keeps the candidates it had when the query fails
SearchSimilarNodeKeeps(st, query) ==
    [st EXCEPT !.current_stage = "semantic_search",
               !.similar_features = IF query.raised THEN @ ELSE FindSimilarFeatures(query)]

\* _search_similar_node
SearchSimilarNode(st, query) ==
    [st EXCEPT !.current_stage = "semantic_search",
               !.similar_features = FindSimilarFeatures(query)]

\* generate_response raises inside _classify_relationship_with_llm
Unavailable == "<raises>"
ValidRelationships == {"duplicate", "supersedes", "builds_on", "fixes", "conflicts_with"}

\* response.strip().lower() of the answers the model follows
LlmResponses == {"duplicate", "supersedes", "builds_on", "none", Unavailable}

\* A fallback whose thresholds exclude their boundary
ClassifyRelationshipStrict(response, similarity_score) ==
    IF response # Unavailable
    THEN IF response \in ValidRelationships THEN Some(response) ELSE None
    ELSE IF similarity_score > 90 THEN Some("duplicate")
         ELSE IF similarity_score > 80 THEN Some("builds_on")
         ELSE None

\* _classify_relationship_with_llm: the relationship, or None
ClassifyRelationshipWithLlm(response, similarity_score) ==
    IF response # Unavailable
    THEN IF response \in ValidRelationships THEN Some(response) ELSE None
    ELSE IF similarity_score >= 90 THEN Some("duplicate")
         ELSE IF similarity_score >= 80 THEN Some("builds_on")
         ELSE None

\* _classify_relationships_node; responses[i] answers for similar_features[i]
ClassifyRelationshipsNode(st, responses) ==
    LET classified ==
            [i \in 1..Len(st.similar_features) |->
               [feature_id |-> st.similar_features[i].feature_id,
                relationship_type |->
                    ClassifyRelationshipWithLlm(responses[i],
                                                st.similar_features[i].similarity_score),
                confidence_score |-> st.similar_features[i].similarity_score]]
        found == SelectSeq(classified, LAMBDA r : r.relationship_type # None)
    IN  [st EXCEPT !.current_stage = "relationship_classification",
                   !.potential_relationships =
                       [i \in 1..Len(found) |->
                          [found[i] EXCEPT !.relationship_type = found[i].relationship_type[1]]]]

\* An edge that sends every request to the user
ShouldConfirmAlways(st) == "confirm"

\* An edge that takes confidence 0.8 for too low
ShouldConfirmAbove(st) ==
    IF \E i \in 1..Len(st.potential_relationships) :
          /\ st.potential_relationships[i].relationship_type \in {"duplicate", "conflicts_with"}
          /\ st.potential_relationships[i].confidence_score > 80
    THEN "confirm" ELSE "store"

\* _should_confirm_relationships
ShouldConfirmRelationships(st) ==
    IF \E i \in 1..Len(st.potential_relationships) :
          /\ st.potential_relationships[i].relationship_type \in {"duplicate", "conflicts_with"}
          /\ st.potential_relationships[i].confidence_score >= 80
    THEN "confirm" ELSE "store"

\* A confirmation node that records an approval
ConfirmWithUserNodeApproves(st) ==
    [st EXCEPT !.current_stage = "user_confirmation", !.user_approved = TRUE]

\* _confirm_with_user_node
ConfirmWithUserNode(st) == [st EXCEPT !.current_stage = "user_confirmation"]

\* _process_user_confirmation
ProcessUserConfirmation(st) ==
    IF st.user_approved THEN "approved"
    ELSE IF st.retry_count < st.max_retries THEN "retry" ELSE "cancelled"

\* A retry that does not count
HandleRetryNodeNoCount(st) == [st EXCEPT !.error_message = None]

\* A retry that counts for two
HandleRetryNodeByTwo(st) ==
    [st EXCEPT !.retry_count = st.retry_count + 2, !.error_message = None]

\* _handle_retry_node
HandleRetryNode(st) ==
    [st EXCEPT !.retry_count = st.retry_count + 1, !.error_message = None]

\* A retry edge that ends the run one retry later
ShouldRetryAbove(st) == IF st.retry_count > st.max_retries THEN "end" ELSE "retry"

\* _should_retry
ShouldRetry(st) == IF st.retry_count >= st.max_retries THEN "end" ELSE "retry"

\* The tables of ledger.db
Tables == {"features", "feature_relations", "feature_documents"}

\* INSERT INTO feature_relationships raises OperationalError unless the table exists
InsertRelationshipsRaises(confirmations) ==
    DOMAIN confirmations # {} /\ "feature_relationships" \notin Tables

\* A store node that records the id as soon as add_feature returned it
StoreFeatureNodeEarlyId(st, feats, rels, fid, now) ==
    LET feature_data == [type |-> st.feature_type, status |-> NoKey, relations |-> << >>]
        txn == InsertFeatureTxn(feats, rels, fid, feature_data, now)
        failed == [st EXCEPT !.current_stage = "storage",
                             !.feature_id = IF txn.raised THEN @ ELSE Some(fid),
                             !.error_message = Some("Storage failed"),
                             !.stored_successfully = FALSE]
        stored == [st EXCEPT !.current_stage = "storage",
                             !.feature_id = Some(fid),
                             !.stored_successfully = TRUE]
    IN  [added |-> ~txn.raised,
         db |-> txn.db,
         state |-> IF txn.raised \/ InsertRelationshipsRaises(st.relationship_confirmations)
                   THEN failed ELSE stored]

\* _store_feature_node on a ledger whose scan computed fid: add_feature, the
\* embedding stored in ChromaDB (no table of the ledger), then the confirmed
\* relationships; any exception becomes error_message.
StoreFeatureNode(st, feats, rels, fid, now) ==
    LET feature_data == [type |-> st.feature_type, status |-> NoKey, relations |-> << >>]
        txn == InsertFeatureTxn(feats, rels, fid, feature_data, now)
        failed == [st EXCEPT !.current_stage = "storage",
                             !.error_message = Some("Storage failed"),
                             !.stored_successfully = FALSE]
        stored == [st EXCEPT !.current_stage = "storage",
                             !.feature_id = Some(fid),
                             !.stored_successfully = TRUE]
    IN  [added |-> ~txn.raised,
         db |-> txn.db,
         state |-> IF txn.raised \/ InsertRelationshipsRaises(st.relationship_confirmations)
                   THEN failed ELSE stored]

\* _handle_workflow_results: what the CLI makes of a final state
WorkflowResult(st) ==
    IF st.current_stage = "user_confirmation" THEN "confirm"
    ELSE IF st.stored_successfully THEN "success"
    ELSE IF st.error_message # None THEN "failure"
    ELSE "unknown"

\* The relationships _handle_user_confirmation_stage asks about
AskedRelationships(st) ==
    {i \in 1..Len(st.potential_relationships) :
        /\ st.potential_relationships[i].relationship_type
               \in {"duplicate", "supersedes", "conflicts_with"}
        /\ st.potential_relationships[i].confidence_score >= 70}

\* confirmed_relationships: the asked relationships the user answered y to
ConfirmedRelationships(st, yes) ==
    [id \in {st.potential_relationships[i].feature_id : i \in yes} |->
        LET i == CHOOSE j \in yes :
                     /\ st.potential_relationships[j].feature_id = id
                     /\ \A k \in yes : st.potential_relationships[k].feature_id = id => k <= j
        IN  st.potential_relationships[i].relationship_type]

\* Choice 2 of the prompt taken for choice 1
UserChoiceAlwaysProceeds(choice) == "proceed"

\* The prompt of _handle_user_confirmation_stage: 1 proceeds, 2 cancels
UserChoice(choice) == IF choice = "1" THEN "proceed" ELSE "cancel"

NoRun == [n |-> 0, before |-> <<<< >>, << >>, << >>>>, seen |-> {}, trail |-> << >>,
          validation |-> Validation(FALSE, 0), candidates |-> 0, stores |-> 0, failed |-> "none",
          choice |-> "none", result |-> "none"]

NoProbe == [response |-> "none", similarity_score |-> 0, result |-> <<"not called">>]

\* Direct calls of _classify_relationship_with_llm
ProbeInputs ==
    {[response |-> r, similarity_score |-> s, result |-> <<"not called">>] :
        r \in LlmResponses, s \in 0..One}

WorkflowInit ==
    /\ state = InitialState("new_feature")
    /\ node = Idle
    /\ workflow = NoRun

Init == LedgerInit /\ WorkflowInit /\ probe = NoProbe

----------------------------------------------------------------------------
(* Two callers on the same ledger.db, each on its own connection.  A SELECT  *)
(* runs outside any transaction; the first INSERT or UPDATE opens one, which *)
(* holds the write lock until commit or rollback, so the writes of a call    *)
(* are one step and another connection sees them all or not at all.         *)

\* add_feature, lines 81-97: the scan for the last id and the new id it gives
ScanLastFeatureId(c, data) ==
    /\ pc[c] = Idle
    /\ CanCall
    /\ Cardinality(DOMAIN features) < MaxFeatures
    /\ \E fid \in NextFeatureIds(features, manager) :
         frame' = [frame EXCEPT ![c] = [op |-> "add_feature", data |-> data, fid |-> fid]]
    /\ pc' = [pc EXCEPT ![c] = "scanned"]
    /\ UNCHANGED <<features, relations, documents, clock, manager, last, returned, state, node, workflow, probe>>

\* add_feature, lines 99-127: the inserts under the id the scan computed
InsertScannedFeature(c, now) ==
    /\ pc[c] = "scanned"
    /\ now \in clock..MaxClock
    /\ LET fid == frame[c].fid
           txn == InsertFeatureTxn(features, relations, fid, frame[c].data, now)
       IN  /\ features' = txn.db.features
           /\ relations' = txn.db.relations
           /\ last' = Call("add_feature", frame[c].data, txn.raised,
                           IF txn.raised THEN None ELSE fid, ~txn.raised,
                           ledger, <<txn.db.features, txn.db.relations, documents>>)
           /\ returned' = IF txn.raised THEN returned ELSE Append(returned, fid)
    /\ clock' = now
    /\ pc' = [pc EXCEPT ![c] = Idle]
    /\ frame' = [frame EXCEPT ![c] = NoFrame]
    /\ UNCHANGED <<documents, manager, state, node, workflow, probe>>

\* add_feature_document, lines 285-293: now, and the SELECT of the row of the key
SelectDocumentRow(c, fid, document_type, content, now) ==
    /\ pc[c] = Idle
    /\ CanCall
    /\ now \in clock..MaxClock
    /\ clock' = now
    /\ frame' = [frame EXCEPT ![c] =
                    [op |-> "add_feature_document",
                     args |-> [feature_id |-> fid, document_type |-> document_type,
                               content |-> content],
                     now |-> now,
                     exists |-> DocumentRows(documents, fid, document_type) # {}]]
    /\ pc' = [pc EXCEPT ![c] = "selected"]
    /\ UNCHANGED <<features, relations, documents, manager, last, returned, state, node, workflow, probe>>

\* add_feature_document, lines 293-308: the UPDATE or the INSERT, and commit
WriteSelectedDocument(c) ==
    /\ pc[c] = "selected"
    /\ LET f == frame[c]
           w == WriteDocument(features, documents, f.exists, f.args.feature_id,
                              f.args.document_type, f.args.content, f.now)
       IN  /\ documents' = w.documents
           /\ last' = Call("add_feature_document", f.args, w.raised, None, ~w.raised,
                           documents, w.documents)
    /\ pc' = [pc EXCEPT ![c] = Idle]
    /\ frame' = [frame EXCEPT ![c] = NoFrame]
    /\ UNCHANGED <<features, relations, clock, manager, returned, state, node, workflow, probe>>

ConcurrentFeatureData == {Plain, [Plain EXCEPT !.relations = <<BuildsOn>>]}
ConcurrentDocumentArgs ==
    [feature_id : {TP001}, document_type : {"feature_request"}, content : {"v1", "v2"}]

NextConcurrent ==
    \/ \E i \in Initials : NewManager(i)
    \/ \E c \in Callers, data \in ConcurrentFeatureData : ScanLastFeatureId(c, data)
    \/ \E c \in Callers, now \in 0..MaxClock : InsertScannedFeature(c, now)
    \/ \E c \in Callers, a \in ConcurrentDocumentArgs, now \in 0..MaxClock :
          SelectDocumentRow(c, a.feature_id, a.document_type, a.content, now)
    \/ \E c \in Callers : WriteSelectedDocument(c)
    \/ \E a \in StatusUpdateArgs, now \in 0..MaxClock :
          UpdateFeatureStatus(a.feature_id, a.status, a.timestamp_field, now)
    \/ \E a \in ImplementationArgs, now \in 0..MaxClock :
          MarkFeatureImplemented(a.feature_id, a.commit_hash, a.changed_files, now)
    \/ \E fid \in FeatureIdArgs, now \in 0..MaxClock : MarkFeatureSuperseded(fid, now)

SpecConcurrent == Init /\ [][NextConcurrent]_vars

----
(* One caller at a time *)

Next ==
    \/ \E i \in Initials : NewManager(i)
    \/ \E data \in FeatureData, now \in 0..MaxClock : AddFeature(data, now)
    \/ \E a \in StatusUpdateArgs, now \in 0..MaxClock :
          UpdateFeatureStatus(a.feature_id, a.status, a.timestamp_field, now)
    \/ \E a \in ImplementationArgs, now \in 0..MaxClock :
          MarkFeatureImplemented(a.feature_id, a.commit_hash, a.changed_files, now)
    \/ \E fid \in FeatureIdArgs, now \in 0..MaxClock : MarkFeatureSuperseded(fid, now)
    \/ \E a \in DocumentArgs, now \in 0..MaxClock :
          AddFeatureDocument(a.feature_id, a.document_type, a.content, now)

Spec == Init /\ [][Next]_vars

\* Features added, their statuses updated, and the statistics read
NextStatistics ==
    \/ \E data \in FeatureData, now \in 0..MaxClock : AddFeature(data, now)
    \/ \E a \in StatusUpdateArgs, now \in 0..MaxClock :
          UpdateFeatureStatus(a.feature_id, a.status, a.timestamp_field, now)
    \/ GetFeatureStatistics

SpecStatistics == Init /\ [][NextStatistics]_vars

----------------------------------------------------------------------------
(* The feature request workflow: process_feature_request runs the graph of  *)
(* _build_workflow node by node; the CLI then reads the final state and,    *)
(* at stage user_confirmation, prompts the user.                            *)

FeatureTypeArgs == {"new_feature", "spike"}

\* process_feature_request: the initial state enters validate_request
StartRun(feature_type) ==
    /\ node \in {Idle, "exit"}
    /\ workflow.n < MaxRuns
    /\ state' = InitialState(feature_type)
    /\ node' = "validate_request"
    /\ workflow' = [n |-> workflow.n + 1, before |-> ledger, seen |-> {}, trail |-> << >>,
                    validation |-> Validation(FALSE, 0), candidates |-> 0, stores |-> 0,
                    failed |-> "none", choice |-> "none", result |-> "running"]
    /\ UNCHANGED <<ledger, clock, manager, last, returned, pc, frame, probe>>

\* Node validate_request and its conditional edges
ValidateRequest(outcome) ==
    /\ node = "validate_request"
    /\ state' = ValidateRequestNode(state, outcome)
    /\ node' = LET edge == ShouldProceedAfterValidation(state')
               IN  IF edge = "proceed" THEN "search_similar"
                   ELSE IF edge = "retry" THEN "handle_retry" ELSE END
    /\ workflow' = [workflow EXCEPT !.trail = Append(@, "validate_request"),
                                    !.seen = @ \cup {outcome},
                                    !.validation = outcome,
                                    !.failed = IF outcome.raised THEN "validation" ELSE "none"]
    /\ UNCHANGED <<ledger, clock, manager, last, returned, pc, frame, probe>>

\* A search node that also writes a feature row
SearchSimilarWriting(query) ==
    /\ node = "search_similar"
    /\ state' = SearchSimilarNode(state, query)
    /\ node' = "classify_relationships"
    /\ workflow' = [workflow EXCEPT !.trail = Append(@, "search_similar"),
                                    !.candidates = @ + Len(state'.similar_features),
                                    !.failed = IF query.raised THEN "similarity" ELSE "none"]
    /\ features' = features @@ (TP999 :> NewFeatureRow(Plain, clock))
    /\ UNCHANGED <<relations, documents, clock, manager, last, returned, pc, frame, probe>>

\* Node search_similar and its edge to classify_relationships
SearchSimilar(query) ==
    /\ node = "search_similar"
    /\ state' = SearchSimilarNode(state, query)
    /\ node' = "classify_relationships"
    /\ workflow' = [workflow EXCEPT !.trail = Append(@, "search_similar"),
                                    !.candidates = @ + Len(state'.similar_features),
                                    !.failed = IF query.raised THEN "similarity" ELSE "none"]
    /\ UNCHANGED <<ledger, clock, manager, last, returned, pc, frame, probe>>

\* Node classify_relationships and its conditional edges
ClassifyRelationships(responses) ==
    /\ node = "classify_relationships"
    /\ state' = ClassifyRelationshipsNode(state, responses)
    /\ node' = IF ShouldConfirmRelationships(state') = "confirm"
               THEN "confirm_with_user" ELSE "store_feature"
    /\ workflow' = [workflow EXCEPT !.trail = Append(@, "classify_relationships"),
                                    !.failed = IF \E i \in DOMAIN responses :
                                                     responses[i] = Unavailable
                                               THEN "classification" ELSE "none"]
    /\ UNCHANGED <<ledger, clock, manager, last, returned, pc, frame, probe>>

\* Node confirm_with_user and its conditional edges
ConfirmWithUser ==
    /\ node = "confirm_with_user"
    /\ state' = ConfirmWithUserNode(state)
    /\ node' = LET edge == ProcessUserConfirmation(state')
               IN  IF edge = "approved" THEN "store_feature"
                   ELSE IF edge = "retry" THEN "handle_retry" ELSE END
    /\ workflow' = [workflow EXCEPT !.trail = Append(@, "confirm_with_user"),
                                    !.failed = "none"]
    /\ UNCHANGED <<ledger, clock, manager, last, returned, pc, frame, probe>>

\* Node handle_retry and its conditional edges
HandleRetry ==
    /\ node = "handle_retry"
    /\ state' = HandleRetryNode(state)
    /\ node' = IF ShouldRetry(state') = "retry" THEN "validate_request" ELSE END
    /\ workflow' = [workflow EXCEPT !.trail = Append(@, "handle_retry"), !.failed = "none"]
    /\ UNCHANGED <<ledger, clock, manager, last, returned, pc, frame, probe>>

\* _store_feature_node(st) run against the ledger; now is the reading of
\* datetime.now() inside add_feature
RunStoreFeatureNode(st, now) ==
    /\ now \in clock..MaxClock
    /\ \E fid \in NextFeatureIds(features, manager) :
         LET res == StoreFeatureNode(st, features, relations, fid, now)
         IN  /\ state' = res.state
             /\ features' = res.db.features
             /\ relations' = res.db.relations
             /\ last' = Call("add_feature",
                             [type |-> st.feature_type, status |-> NoKey, relations |-> << >>],
                             ~res.added, IF res.added THEN fid ELSE None, res.added,
                             ledger, <<res.db.features, res.db.relations, documents>>)
             /\ returned' = IF res.added THEN Append(returned, fid) ELSE returned
    /\ clock' = now
    /\ UNCHANGED <<documents, manager, pc, frame, probe>>

\* Whether the ledger raised inside the _store_feature_node(st) just run: in
\* add_feature, or at the INSERT of the confirmed relationships
StoreFailure(st) ==
    IF last'.raised \/ InsertRelationshipsRaises(st.relationship_confirmations)
    THEN "ledger" ELSE "none"

\* Node store_feature and its edge to END
StoreFeature(now) ==
    /\ node = "store_feature"
    /\ RunStoreFeatureNode(state, now)
    /\ node' = END
    /\ workflow' = [workflow EXCEPT !.trail = Append(@, "store_feature"), !.stores = @ + 1,
                                    !.failed = StoreFailure(state)]

\* _handle_workflow_results on the final state of the graph
HandleWorkflowResults ==
    /\ node = END
    /\ node' = IF WorkflowResult(state) = "confirm" THEN "user_confirmation" ELSE "exit"
    /\ workflow' = [workflow EXCEPT !.result = WorkflowResult(state)]
    /\ UNCHANGED <<ledger, clock, manager, last, returned, pc, frame, probe, state>>

\* _handle_user_confirmation_stage: the user's choice at the prompt and, on
\* choice 1, the asked relationships answered y; choice 1 calls
\* _store_feature_node and reads its result, choice 2 returns.
HandleUserConfirmationStage(choice, yes, now) ==
    /\ node = "user_confirmation"
    /\ IF UserChoice(choice) = "proceed"
       THEN /\ yes \subseteq AskedRelationships(state)
            /\ RunStoreFeatureNode(
                   [state EXCEPT !.user_approved = TRUE,
                                 !.relationship_confirmations = ConfirmedRelationships(state, yes)],
                   now)
            /\ workflow' = [workflow EXCEPT
                   !.result = WorkflowResult(state'), !.stores = @ + 1, !.choice = choice,
                   !.failed = StoreFailure([state EXCEPT !.relationship_confirmations =
                                                            ConfirmedRelationships(state, yes)])]
       ELSE /\ yes = {} /\ now = clock
            /\ workflow' = [workflow EXCEPT !.result = "cancelled", !.choice = choice]
            /\ UNCHANGED <<ledger, clock, manager, last, returned, pc, frame, probe, state>>
    /\ node' = "exit"

\* Ctrl-C while the command waits at input(): KeyboardInterrupt is no Exception,
\* so it passes the except clauses of the handlers and reaches handle_feature_new
KeyboardInterrupt ==
    /\ node = "user_confirmation"
    /\ node' = "exit"
    /\ workflow' = [workflow EXCEPT !.result = "interrupted"]
    /\ UNCHANGED <<ledger, clock, manager, last, returned, pc, frame, probe, state>>

\* The exit code handle_feature_new returns for the outcome of the command
ExitCode(result) ==
    CASE result = "success" -> 0
      [] result = "failure" -> 1
      [] result = "unknown" -> 1
      [] result = "cancelled" -> 0
      [] result = "interrupted" -> 130

\* The nodes of the compiled graph
GraphStep ==
    \/ \E outcome \in ValidationOutcomes : ValidateRequest(outcome)
    \/ \E query \in ChromaQueries : SearchSimilar(query)
    \/ \E responses \in [1..Len(state.similar_features) -> LlmResponses] :
         ClassifyRelationships(responses)
    \/ ConfirmWithUser
    \/ HandleRetry
    \/ \E now \in 0..MaxClock : StoreFeature(now)

NextWorkflow ==
    \/ \E feature_type \in FeatureTypeArgs : StartRun(feature_type)
    \/ GraphStep
    \/ HandleWorkflowResults
    \/ \E choice \in {"1", "2"}, yes \in SUBSET (1..Len(state.potential_relationships)),
          now \in 0..MaxClock : HandleUserConfirmationStage(choice, yes, now)
    \/ KeyboardInterrupt

SpecWorkflow == Init /\ [][NextWorkflow]_vars

\* A complete request taken from validate_request to the edge out of
\* classify_relationships, over more answers of the collection and of the LLM
RelationshipDistances == {5, 15, 20, 21, 25}
RelationshipQueries ==
    {QueryRows(<<[feature_id |-> TP001, distance |-> d]>>) : d \in RelationshipDistances}
    \cup {QueryRows(<<[feature_id |-> TP001, distance |-> d[1]],
                      [feature_id |-> TP999, distance |-> d[2]]>>) :
            d \in {e \in RelationshipDistances \X RelationshipDistances : e[1] <= e[2]}}

NextRelationships ==
    \/ StartRun("new_feature")
    \/ ValidateRequest(Validation(TRUE, 90))
    \/ \E query \in RelationshipQueries : SearchSimilar(query)
    \/ \E responses \in [1..Len(state.similar_features) ->
                            ValidRelationships \cup {"none", Unavailable}] :
          ClassifyRelationships(responses)

SpecRelationships == Init /\ [][NextRelationships]_vars

\* One call of process_feature_request: workflow.invoke runs the graph, node
\* after node, until it reaches END
NextInvoke ==
    \/ \E feature_type \in FeatureTypeArgs : StartRun(feature_type)
    \/ GraphStep

SpecWorkflowFair == Init /\ [][NextInvoke]_vars /\ WF_vars(GraphStep)

----------------------------------------------------------------------------
(* _classify_relationship_with_llm called on its own *)

InitClassify == LedgerInit /\ WorkflowInit /\ probe \in ProbeInputs

ClassifyProbe ==
    /\ probe.result = <<"not called">>
    /\ probe' = [probe EXCEPT !.result = ClassifyRelationshipWithLlm(probe.response,
                                                                     probe.similarity_score)]
    /\ UNCHANGED <<ledger, clock, manager, last, returned, pc, frame, state, node, workflow>>

NextClassify == ClassifyProbe

SpecClassify == InitClassify /\ [][NextClassify]_vars

----------------------------------------------------------------------------
(* SemanticSearchEngine._classify_relationship, called directly *)

UpperLetters == <<"A", "B", "C", "D", "E", "F", "G", "H", "I", "J", "K", "L", "M", "N", "O", "P", "Q", "R", "S", "T", "U", "V", "W", "X", "Y", "Z">>

LowerLetters == <<"a", "b", "c", "d", "e", "f", "g", "h", "i", "j", "k", "l", "m", "n", "o", "p", "q", "r", "s", "t", "u", "v", "w", "x", "y", "z">>

\* str.lower() of one character
LowerChar(c) ==
    IF \E i \in 1..26 : UpperLetters[i] = c
    THEN LowerLetters[CHOOSE i \in 1..26 : UpperLetters[i] = c]
    ELSE c

\* str.lower()
Lower(text) == [i \in 1..Len(text) |-> LowerChar(text[i])]

\* keyword in text
Contains(text, keyword) ==
    \E i \in 1..(Len(text) - Len(keyword) + 1) :
        SubSeq(text, i, i + Len(keyword) - 1) = keyword

\* any(keyword in text for keyword in keywords)
ContainsAny(text, keywords) == \E keyword \in keywords : Contains(text, keyword)

EnhancementKeywords ==
    {<<"i", "m", "p", "r", "o", "v", "e">>,
     <<"e", "n", "h", "a", "n", "c", "e">>,
     <<"b", "e", "t", "t", "e", "r">>,
     <<"o", "p", "t", "i", "m", "i", "z", "e">>,
     <<"r", "e", "f", "a", "c", "t", "o", "r">>}

FixKeywords ==
    {<<"f", "i", "x">>,
     <<"b", "u", "g">>,
     <<"e", "r", "r", "o", "r">>,
     <<"i", "s", "s", "u", "e">>,
     <<"p", "r", "o", "b", "l", "e", "m">>}

\* A classification whose thresholds are exclusive
ClassifyRelationshipAbove(text1, text2, similarity_score) ==
    LET text1_lower == Lower(text1)
        text2_lower == Lower(text2)
    IN  IF similarity_score > 90 THEN Some("duplicate")
        ELSE IF /\ ContainsAny(text1_lower, EnhancementKeywords)
                /\ ContainsAny(text2_lower, EnhancementKeywords) THEN Some("builds_on")
        ELSE IF ContainsAny(text1_lower, FixKeywords) THEN Some("fixes")
        ELSE IF similarity_score > 80 THEN Some("builds_on")
        ELSE None

\* _classify_relationship
ClassifyRelationship(text1, text2, similarity_score) ==
    LET text1_lower == Lower(text1)
        text2_lower == Lower(text2)
    IN  IF similarity_score >= 90 THEN Some("duplicate")
        ELSE IF /\ ContainsAny(text1_lower, EnhancementKeywords)
                /\ ContainsAny(text2_lower, EnhancementKeywords) THEN Some("builds_on")
        ELSE IF ContainsAny(text1_lower, FixKeywords) THEN Some("fixes")
        ELSE IF similarity_score >= 80 THEN Some("builds_on")
        ELSE None

\* The texts the function is called with: "Add jump", "Fix jump", "Prefix",
\* "Improve UI", "Fix, improve", "Sound"
Texts ==
    {<<"A", "d", "d", " ", "j", "u", "m", "p">>,
     <<"F", "i", "x", " ", "j", "u", "m", "p">>,
     <<"P", "r", "e", "f", "i", "x">>,
     <<"I", "m", "p", "r", "o", "v", "e", " ", "U", "I">>,
     <<"F", "i", "x", ",", " ", "i", "m", "p", "r", "o", "v", "e">>,
     <<"S", "o", "u", "n", "d">>}

SemanticProbeInputs ==
    {[text1 |-> t1, text2 |-> t2, similarity_score |-> s, result |-> <<"not called">>] :
        t1 \in Texts, t2 \in Texts, s \in 0..One}

InitSemantic == LedgerInit /\ WorkflowInit /\ probe \in SemanticProbeInputs

SemanticClassifyProbe ==
    /\ probe.result = <<"not called">>
    /\ probe' = [probe EXCEPT !.result = ClassifyRelationship(probe.text1, probe.text2,
                                                              probe.similarity_score)]
    /\ UNCHANGED <<ledger, clock, manager, last, returned, pc, frame, state, node, workflow>>

NextSemantic == SemanticClassifyProbe

SpecSemantic == InitSemantic /\ [][NextSemantic]_vars

----------------------------------------------------------------------------
(* Feature ids over a growing ledger: add_feature computes each id from the *)
(* row its scan returns, and 'feature show' validates the id it is given.   *)

\* How many features one project's ledger is taken to
MaxLedger == 1000

\* project_initials of one to four uppercase letters
ProjectInitials == {T, TP, <<"A", "B", "C">>, <<"W", "X", "Y", "Z">>}

\* new_feature_num from last_feature = cursor.fetchone(): the scan's ORDER BY
\* ... DESC LIMIT 1 returns the row of the highest number, the one added last
NewFeatureNum(last_feature) ==
    IF last_feature = None THEN 1
    ELSE PyInt(SplitDash(last_feature[1])[2]) + 1

\* validate_feature_id: re.match(r"^[A-Z]{1,4}-\d{3}$", feature_id)
ValidateFeatureId(feature_id) ==
    \E k \in 1..4 :
        /\ Len(feature_id) = k + 4
        /\ \A i \in 1..k : \E u \in 1..26 : UpperLetters[u] = feature_id[i]
        /\ feature_id[k + 1] = "-"
        /\ \A i \in (k + 2)..(k + 4) : IsDigit(feature_id[i])

\* handle_feature_show on a stored feature: 1 when the id is refused, 0 when
\* the feature is found and printed
HandleFeatureShow(feature_id) == IF ~ValidateFeatureId(feature_id) THEN 1 ELSE 0

InitFeatureId ==
    /\ LedgerInit /\ WorkflowInit
    /\ probe \in {[initials |-> i, count |-> 0, last_feature |-> None, exit_code |-> 0] :
                      i \in ProjectInitials}

\* add_feature on the ledger of probe.count features, then 'feature show' of
\* the id it returned
AddThenShow ==
    /\ probe.count < MaxLedger
    /\ LET feature_id == MakeFeatureId(probe.initials, NewFeatureNum(probe.last_feature))
       IN  probe' = [probe EXCEPT !.count = @ + 1,
                                  !.last_feature = Some(feature_id),
                                  !.exit_code = HandleFeatureShow(feature_id)]
    /\ UNCHANGED <<ledger, clock, manager, last, returned, pc, frame, state, node, workflow>>

NextFeatureId == AddThenShow

SpecFeatureId == InitFeatureId /\ [][NextFeatureId]_vars

----------------------------------------------------------------------------
(* Properties of identifier allocation *)

IsCall(op) == last.op = op
IsTpId(id) == Len(id) > 3 /\ id[1] = "T" /\ id[2] = "P" /\ id[3] = "-"
TpReturned == SelectSeq(returned, IsTpId)
InitialsOfId(id) == SplitDash(id)[1]
NumberOfId(id) == PyInt(SplitDash(id)[2])

\* C1: the i-th id that add_feature returns for the prefix TP, counting from an
\* empty ledger and in call order, is TP-00i (TP-001, TP-002, ...).
C1_SequentialIds ==
    \A i \in 1..Len(TpReturned) :
        i <= 9 => TpReturned[i] = <<"T", "P", "-", "0", "0", Digit[i + 1]>>

C1_Witness ==
    /\ Len(returned) >= 2
    /\ TpReturned = returned
    /\ IsCall("add_feature") /\ last.id = returned[Len(returned)]

\* C2: whatever calls were made, re-created managers and overlapping add_feature
\* calls included, no id is returned twice and an id returned later has a larger
\* number than every id returned earlier for the same initials.
C2_IdsIncreaseNeverReused ==
    \A i, j \in 1..Len(returned) :
        i < j => /\ returned[i] # returned[j]
                 /\ InitialsOfId(returned[i]) = InitialsOfId(returned[j])
                      => NumberOfId(returned[i]) < NumberOfId(returned[j])

C2_Witness ==
    /\ Len(returned) >= 2
    /\ InitialsOfId(returned[1]) = InitialsOfId(returned[2])
    /\ IsCall("add_feature") /\ last.raised

\* C3: two overlapping add_feature calls never hold the same computed id, and an
\* add_feature whose data satisfies every constraint completes with an id.
C3_AllocationAtomic ==
    /\ \A c, d \in Callers :
         (c # d /\ pc[c] = "scanned" /\ pc[d] = "scanned") => frame[c].fid # frame[d].fid
    /\ (IsCall("add_feature") /\ last.args = Plain) => ~last.raised

----------------------------------------------------------------------------
(* Properties of add_feature *)

\* feature_data breaks a constraint of the schema: a type or status outside the
\* CHECK lists, a relation type outside its CHECK list, or a relation target
\* that is no feature
BreaksConstraint(data) ==
    \/ DictGet(data.type, "new_feature") \notin FeatureTypes
    \/ DictGet(data.status, "requested") \notin FeatureStatuses
    \/ \E k \in 1..Len(data.relations) :
         \/ data.relations[k].type \notin RelationTypes
         \/ data.relations[k].target_id \notin DOMAIN features

\* C4: an add_feature that breaks a constraint raises, and an add_feature that
\* raises leaves every table as it found it and returns no id.
C4_FailedAddLeavesNoRow ==
    IsCall("add_feature") =>
        /\ BreaksConstraint(last.args) => last.raised
        /\ last.raised => (~last.changed /\ last.id = None)

C4_Witness ==
    /\ IsCall("add_feature") /\ last.raised
    /\ Len(last.args.relations) = 2
    /\ last.args.relations[1].target_id \in DOMAIN features
    /\ last.args.relations[2].type \notin RelationTypes

\* C5: the feature that a successful add_feature inserted has status requested.
C5_InsertedAsRequested ==
    (IsCall("add_feature") /\ ~last.raised) => features[last.id].status = "requested"

\* C6: every row of feature_relations names two existing features, and an
\* add_feature with a relation whose target is no feature raises.
C6_RelationsReferToFeatures ==
    /\ \A i \in 1..Len(relations) :
         relations[i].feature_id \in DOMAIN features /\ relations[i].target_id \in DOMAIN features
    /\ (IsCall("add_feature") /\ \E k \in 1..Len(last.args.relations) :
                                    last.args.relations[k].target_id \notin DOMAIN features)
         => (last.raised /\ ~last.changed)

C6_Witness ==
    /\ Len(relations) >= 1
    /\ IsCall("add_feature") /\ last.raised
    /\ \E k \in 1..Len(last.args.relations) : last.args.relations[k].target_id = TP999

\* An add_feature that returned an id is followed at once by an add_feature
\* with the same feature_data
SecondIdenticalAdd ==
    /\ IsCall("add_feature") /\ ~last.raised
    /\ last'.n = last.n + 1
    /\ last'.op = "add_feature"
    /\ last'.args = last.args

\* C11: add_feature is not idempotent: when a successful add_feature is followed
\* by an add_feature with identical feature_data, the second call also returns an
\* id, the two ids differ, both rows exist and the table has grown by one row.
C11_AddTwiceMakesTwoFeatures ==
    [][SecondIdenticalAdd =>
         /\ ~last'.raised
         /\ last'.id # last.id
         /\ {last.id, last'.id} \subseteq DOMAIN features'
         /\ last.id \in DOMAIN features /\ last'.id \notin DOMAIN features
         /\ Cardinality(DOMAIN features') = Cardinality(DOMAIN features) + 1]_vars

C11_Witness ==
    /\ IsCall("add_feature") /\ ~last.raised /\ last.args = Plain
    /\ Len(returned) = 2 /\ returned[2] = last.id /\ returned[1] # returned[2]
    /\ features[returned[1]].type = features[returned[2]].type
    /\ features[returned[1]].status = features[returned[2]].status

----------------------------------------------------------------------------
(* Properties of the status updates *)

\* C7: update_feature_status with a status of the schema returns True for an
\* existing id, and get_feature_by_id then shows that status and, for
\* timestamp_field date_implemented or date_superseded, that field set to the time
\* of the call; for an id that does not exist it returns False and changes no row.
C7_UpdateThenGet ==
    IsCall("update_feature_status") =>
        LET a == last.args
            got == GetFeatureById(a.feature_id)
        IN  /\ (got # None /\ a.status \in FeatureStatuses) =>
                  /\ last.ok /\ ~last.raised
                  /\ got[1].status = a.status
                  /\ a.timestamp_field = "date_implemented" => got[1].date_implemented = Some(clock)
                  /\ a.timestamp_field = "date_superseded" => got[1].date_superseded = Some(clock)
            /\ got = None => (~last.ok /\ ~last.raised /\ ~last.changed)

C7_Witness ==
    /\ IsCall("update_feature_status") /\ last.ok
    /\ last.args.timestamp_field = "date_superseded"
    /\ features[last.args.feature_id].date_superseded = Some(1)
    /\ features[last.args.feature_id].date_created = 0

StatusRank(status) ==
    CASE status = "requested" -> 1
      [] status = "in_review" -> 2
      [] status = "awaiting_implementation" -> 3
      [] status = "awaiting_validation" -> 4
      [] status = "validated" -> 5
      [] status = "superseded" -> 6

\* C8: in every step a feature's status stays, moves forward along requested,
\* in_review, awaiting_implementation, awaiting_validation, validated, or becomes
\* superseded; it never moves backward and a superseded feature keeps its status.
\* (The move to superseded is allowed from every other status, the weakest
\* reading of "non-terminal".)
C8_StatusMovesForward ==
    [][\A f \in DOMAIN features :
         LET old == features[f].status
             new == features'[f].status
         IN  \/ new = old
             \/ old # "superseded" /\ new # "superseded" /\ StatusRank(old) < StatusRank(new)
             \/ old # "superseded" /\ new = "superseded"]_vars

----------------------------------------------------------------------------
(* Properties of add_feature_document *)

SameKey(a, b) == a.feature_id = b.feature_id /\ a.document_type = b.document_type
SecondDocumentCall ==
    /\ IsCall("add_feature_document") /\ last.ok
    /\ last'.n = last.n + 1
    /\ last'.op = "add_feature_document" /\ last'.ok
    /\ SameKey(last'.args, last.args)

\* C9: when add_feature_document succeeds twice in a row for one (feature_id,
\* document_type), the table then holds exactly one row of that key, with the
\* created_at it had after the first call and the content and time of the second.
C9_SecondWriteUpdatesInPlace ==
    [][SecondDocumentCall =>
         LET before == DocumentRows(documents, last.args.feature_id, last.args.document_type)
             after == DocumentRows(documents', last.args.feature_id, last.args.document_type)
         IN  /\ Cardinality(after) = 1
             /\ \A i \in after :
                  /\ \A j \in before : documents'[i].created_at = documents[j].created_at
                  /\ before # {}
                  /\ documents'[i].content = last'.args.content
                  /\ documents'[i].updated_at = clock']_vars

C9_Witness ==
    /\ IsCall("add_feature_document") /\ last.ok
    /\ \E i \in 1..Len(documents) :
         /\ SameKey(documents[i], last.args)
         /\ documents[i].created_at = 0 /\ documents[i].updated_at = 1
         /\ documents[i].content = "v2"

\* C10: the table holds at most one row per (feature_id, document_type).
C10_OneDocumentPerKey ==
    \A i, j \in 1..Len(documents) : SameKey(documents[i], documents[j]) => i = j

----------------------------------------------------------------------------
(* Properties of the feature request workflow *)

EmptyLedger == <<<< >>, << >>, << >>>>
HappyPath == <<"validate_request", "search_similar", "classify_relationships", "store_feature">>

\* Every validation of the run so far reported confidence 0.65
AllValidations65 ==
    /\ workflow.seen # {}
    /\ \A o \in workflow.seen : ~o.raised /\ o.confidence_score = 65

\* C12: while every validation of a run reports confidence 0.65 the ledger stays
\* as the run found it, and the run ends after three retries as a failure with
\* error_message set.
C12_LowConfidenceEndsInFailure ==
    AllValidations65 =>
        /\ ledger = workflow.before
        /\ node = END => /\ state.retry_count = 3
                         /\ ~state.stored_successfully
                         /\ state.error_message # None
                         /\ WorkflowResult(state) = "failure"

\* C13: retry_count never exceeds max_retries and never decreases during a run,
\* a run has visited at most five nodes per retry it has counted (and five
\* before the first), and every run that has entered the graph reaches END.
C13_RetriesBoundedRunTerminates ==
    /\ [](state.retry_count <= state.max_retries)
    /\ [](Len(workflow.trail) <= 5 * (state.retry_count + 1))
    /\ [][workflow'.n = workflow.n => state'.retry_count >= state.retry_count]_vars
    /\ (node \notin {Idle, "exit", "user_confirmation", END}) ~> (node = END)

C13_Witness ==
    /\ node = END
    /\ state.retry_count = state.max_retries
    /\ "confirm_with_user" \in {workflow.trail[i] : i \in 1..Len(workflow.trail)}
    /\ workflow.trail[1] = "validate_request" /\ workflow.trail[2] = "handle_retry"

\* C14: a run that ends with its retries exhausted ends with error_message set.
C14_ExhaustedRunHasErrorMessage ==
    (node = END /\ state.retry_count >= state.max_retries) => state.error_message # None

\* C15: a run whose STORE step did not succeed leaves the ledger as the run
\* found it.
C15_FailedStoreLeavesLedger ==
    (workflow.stores > 0 /\ ~state.stored_successfully) => ledger = workflow.before

\* The rows of feature_relations that start at the feature fid
RelationsOf(fid) == {i \in 1..Len(relations) : relations[i].feature_id = fid}

\* C16: after a STORE step that succeeded the ledger holds the new feature, one
\* relation per entry of relationship_confirmations and no other relation of
\* that feature, and a feature_request document of that feature.
C16_StoreWritesFeatureRelationsDocument ==
    (workflow.stores > 0 /\ state.stored_successfully) =>
        LET fid == state.feature_id[1]
            confirmed == state.relationship_confirmations
        IN  /\ fid \in DOMAIN features
            /\ \A id \in DOMAIN confirmed :
                 \E i \in RelationsOf(fid) :
                    relations[i].target_id = id /\ relations[i].relation_type = confirmed[id]
            /\ \A i \in RelationsOf(fid) :
                 /\ relations[i].target_id \in DOMAIN confirmed
                 /\ relations[i].relation_type = confirmed[relations[i].target_id]
            /\ DocumentRows(documents, fid, "feature_request") # {}

\* C17: a run that has not entered the STORE step has left every feature,
\* relation and document row as it found it, whatever other steps it has taken.
C17_OnlyStoreChangesLedger ==
    workflow.stores = 0 => ledger = workflow.before

C17_Witness ==
    /\ node = END /\ workflow.stores = 0 /\ workflow.n = 2
    /\ DOMAIN features # {}
    /\ {"validate_request", "search_similar", "classify_relationships", "confirm_with_user",
        "handle_retry"} \subseteq {workflow.trail[i] : i \in 1..Len(workflow.trail)}

\* C18: when the user is asked with the retries exhausted and rejects, the run
\* ends as cancelled and the table features is as the run found it.
C18_RejectedRunIsCancelled ==
    (workflow.choice = "2" /\ state.retry_count >= state.max_retries) =>
        /\ workflow.result = "cancelled"
        /\ workflow.stores = 0
        /\ features = workflow.before[1]

C18_Witness ==
    /\ node = "exit" /\ workflow.choice = "2" /\ workflow.result = "cancelled"
    /\ state.retry_count = 3
    /\ workflow.n = 2 /\ DOMAIN features # {}

\* C19: a run on an empty TP ledger for a new_feature, whose validation reports
\* valid with confidence 0.9 and whose search finds no candidate, visits
\* validate_request, search_similar, classify_relationships, store_feature and
\* no other node, and ends as a success with feature_id TP-001 stored in status
\* requested.
C19_HappyPath ==
    ( /\ node = END
      /\ workflow.before = EmptyLedger /\ manager = TP
      /\ state.feature_type = "new_feature"
      /\ workflow.seen = {Validation(TRUE, 90)}
      /\ workflow.candidates = 0 ) =>
        /\ workflow.trail = HappyPath
        /\ WorkflowResult(state) = "success"
        /\ state.feature_id = Some(TP001)
        /\ TP001 \in DOMAIN features /\ features[TP001].status = "requested"

C19_Witness ==
    /\ node = END /\ workflow.n = 1 /\ manager = TP
    /\ workflow.trail = HappyPath
    /\ workflow.seen = {Validation(TRUE, 90)} /\ workflow.candidates = 0
    /\ state.feature_id = Some(TP001)
    /\ features[TP001].status = "requested"

\* C20: called with the judgment oracle unavailable, the classification is
\* duplicate for a similarity of 0.9 or more, builds_on from 0.8 up to but not
\* including 0.9, and no relationship below 0.8.
C20_FallbackThresholds ==
    (probe.result # <<"not called">> /\ probe.response = Unavailable) =>
        probe.result = IF probe.similarity_score >= 90 THEN Some("duplicate")
                       ELSE IF probe.similarity_score >= 80 THEN Some("builds_on")
                       ELSE None

C20_Witness ==
    /\ probe.response = Unavailable /\ probe.similarity_score = 80
    /\ probe.result = Some("builds_on")

----------------------------------------------------------------------------
(* Properties of error handling *)

\* What a node may leave in error_message
ErrorMessages == {None, Some("Validation failed"), Some("Storage failed")}

\* C21 as stated: whenever the validation oracle, the similarity oracle, the
\* classification oracle or the ledger fails inside a step, the state the step
\* returns records the failure (error_message is set).
C21_FailureRecordedInState ==
    workflow.failed # "none" => state.error_message # None

\* C21, amended: no failure escapes a step, every step hands a state to the next
\* node. A failed validation sets error_message and leads to a retry (or the end);
\* a failed ledger sets error_message and ends the run unstored; a failed
\* similarity search leaves an empty candidate list and error_message unset, and
\* a failed classification leaves only relationships of the valid types, both
\* going on to the next step.
C21_FailuresBecomeSignals ==
    /\ state.error_message \in ErrorMessages
    /\ workflow.failed = "validation" =>
          /\ state.error_message = Some("Validation failed")
          /\ ~state.is_valid /\ state.confidence_score = 0
          /\ node \in {"handle_retry", END}
    /\ workflow.failed = "similarity" =>
          /\ state.similar_features = << >>
          /\ state.error_message = None
          /\ node = "classify_relationships"
    /\ workflow.failed = "classification" =>
          /\ \A i \in 1..Len(state.potential_relationships) :
                state.potential_relationships[i].relationship_type \in {"duplicate", "builds_on"}
                    \cup (ValidRelationships \cap LlmResponses)
          /\ state.error_message = None
          /\ node \in {"confirm_with_user", "store_feature"}
    /\ workflow.failed = "ledger" =>
          /\ state.error_message = Some("Storage failed")
          /\ ~state.stored_successfully /\ state.feature_id = None
          /\ node \in {END, "exit"}

C21_Witness ==
    /\ node = END /\ workflow.failed = "ledger"
    /\ state.error_message = Some("Storage failed")
    /\ ValidationRaises \in workflow.seen
    /\ state.retry_count = 1

\* C22: the command exits with 0 when the feature was stored, with 1 when the
\* workflow ended in failure and with 130 when the user interrupted it, and it
\* exits with 0 only when the run added a feature to the ledger.
C22_ExitCodes ==
    node = "exit" =>
        /\ state.stored_successfully => ExitCode(workflow.result) = 0
        /\ workflow.result = "failure" => ExitCode(workflow.result) = 1
        /\ workflow.result = "interrupted" => ExitCode(workflow.result) = 130
        /\ ExitCode(workflow.result) = 0 =>
              (state.stored_successfully /\ features # workflow.before[1])

----------------------------------------------------------------------------
(* Properties of the ledger's dates, statistics and documents *)

\* C23: no step gives a feature a new date_superseded unless the same step leaves
\* it in status superseded, and none gives it a new date_implemented unless the
\* same step leaves it in the status of an implemented feature (validated, or
\* awaiting_validation); a feature starts with neither date.
C23_DatesSetByMatchingStatus ==
    [][\A f \in DOMAIN features' :
         LET new == features'[f]
             old == IF f \in DOMAIN features THEN features[f]
                    ELSE [date_implemented |-> None, date_superseded |-> None]
         IN  /\ new.date_superseded # old.date_superseded => new.status = "superseded"
             /\ new.date_implemented # old.date_implemented =>
                   new.status \in {"validated", "awaiting_validation"}]_vars

\* C24: for an existing feature mark_feature_implemented returns True and
\* get_feature_by_id then shows status validated, date_implemented at the time of
\* the call, the given commit_hash and the given changed_files (an empty list
\* when none were given); mark_feature_superseded returns True and the feature
\* then shows status superseded and date_superseded at the time of the call.
\* For an id that does not exist each returns False and changes no row.
C24_MarkImplementedMarkSuperseded ==
    /\ IsCall("mark_feature_implemented") =>
          LET a == last.args
              got == GetFeatureById(a.feature_id)
          IN  /\ got # None =>
                    /\ last.ok /\ ~last.raised
                    /\ got[1].status = "validated"
                    /\ got[1].date_implemented = Some(clock)
                    /\ got[1].commit_hash = a.commit_hash
                    /\ got[1].changed_files =
                          IF a.changed_files = None THEN << >> ELSE a.changed_files[1]
              /\ got = None => (~last.ok /\ ~last.raised /\ ~last.changed)
    /\ IsCall("mark_feature_superseded") =>
          LET got == GetFeatureById(last.args.feature_id)
          IN  /\ got # None =>
                    /\ last.ok /\ ~last.raised
                    /\ got[1].status = "superseded"
                    /\ got[1].date_superseded = Some(clock)
              /\ got = None => (~last.ok /\ ~last.raised /\ ~last.changed)

C24_Witness ==
    /\ IsCall("mark_feature_implemented") /\ last.ok
    /\ features[TP001].commit_hash = Some("abc123def")
    /\ features[TP001].changed_files = Some(<<"src/main.cpp">>)
    /\ features[TP001].date_implemented = Some(1)
    /\ features[TP001].date_created = 0
    /\ features[TP001].date_superseded # None

\* The sum of the counts of a by_status or by_type dict
RECURSIVE SumCounts(_)
SumCounts(counts) ==
    IF DOMAIN counts = {} THEN 0
    ELSE LET v == CHOOSE x \in DOMAIN counts : TRUE
         IN  counts[v] + SumCounts([x \in DOMAIN counts \ {v} |-> counts[x]])

\* C25: get_feature_statistics leaves every table as it found it, and its
\* total_features is the number of feature rows, the sum of its by_status counts
\* and the sum of its by_type counts.
C25_StatisticsAddUp ==
    IsCall("get_feature_statistics") =>
        /\ ~last.changed /\ ~last.raised
        /\ probe.result.total_features = Cardinality(DOMAIN features)
        /\ SumCounts(probe.result.by_status) = probe.result.total_features
        /\ SumCounts(probe.result.by_type) = probe.result.total_features

C25_Witness ==
    /\ IsCall("get_feature_statistics")
    /\ probe.result.total_features = 2
    /\ probe.result.by_type = [t \in {"new_feature"} |-> 2]
    /\ DOMAIN probe.result.by_status = {"requested", "validated"}

\* C26: every row of feature_documents names an existing feature, and an
\* add_feature_document for a feature_id that is no feature raises and leaves
\* the table as it found it.
C26_DocumentsReferToFeatures ==
    /\ \A i \in 1..Len(documents) : documents[i].feature_id \in DOMAIN features
    /\ (IsCall("add_feature_document") /\ last.args.feature_id \notin DOMAIN features)
         => (last.raised /\ ~last.ok /\ ~last.changed)

C26_Witness ==
    /\ IsCall("add_feature_document") /\ last.raised
    /\ last.args.feature_id = TP999 /\ last.args.document_type = "feature_request"
    /\ Len(documents) = 1 /\ documents[1].feature_id = TP001

----------------------------------------------------------------------------
(* Properties of the edges of the workflow graph *)

\* The node that ran last in the graph, the edge out of it just taken
JustRan(name) ==
    /\ node \notin {Idle, "exit", "user_confirmation"}
    /\ Len(workflow.trail) > 0
    /\ workflow.trail[Len(workflow.trail)] = name

\* C27: out of validate_request the run goes to search_similar exactly when the
\* validation did not fail, reported the request complete and reported a
\* confidence of 0.7 or more.
C27_ProceedsIffValidAndConfident ==
    JustRan("validate_request") =>
        (node = "search_similar" <=>
            /\ ~workflow.validation.raised
            /\ workflow.validation.is_complete
            /\ workflow.validation.confidence_score >= 70)

C27_Witness ==
    /\ JustRan("validate_request") /\ node = "search_similar"
    /\ workflow.validation = Validation(TRUE, 70)
    /\ Validation(FALSE, 80) \in workflow.seen

\* C28: out of validate_request the run goes to handle_retry exactly when (the
\* validation failed or reported a confidence below 0.7) and retry_count is
\* below max_retries; when it goes neither to search_similar nor to handle_retry
\* it ends, unstored.
C28_RetriesOnErrorOrLowConfidence ==
    JustRan("validate_request") =>
        /\ node = "handle_retry" <=>
              /\ workflow.validation.raised \/ workflow.validation.confidence_score < 70
              /\ state.retry_count < state.max_retries
        /\ node \notin {"search_similar", "handle_retry"} =>
              (node = END /\ ~state.stored_successfully)

\* C29: handle_retry leaves retry_count at the number of retries the run has
\* taken (one more each time) and error_message unset, and the run goes on to
\* validate_request.
C29_RetryCountsClearsRevalidates ==
    JustRan("handle_retry") =>
        /\ state.retry_count =
              Cardinality({i \in 1..Len(workflow.trail) : workflow.trail[i] = "handle_retry"})
        /\ state.error_message = None
        /\ node = "validate_request"

\* C30: out of classify_relationships the run goes to confirm_with_user exactly
\* when some potential relationship is a duplicate or a conflicts_with with a
\* confidence of 0.8 or more, and to store_feature otherwise; a lone duplicate at
\* 0.85 goes to confirm_with_user, a lone builds_on at 0.75 to store_feature.
C30_ConfirmsIffHighConfidenceIssue ==
    JustRan("classify_relationships") =>
        LET rels == state.potential_relationships
            issue(i) == /\ rels[i].relationship_type \in {"duplicate", "conflicts_with"}
                        /\ rels[i].confidence_score >= 80
        IN  /\ node = IF \E i \in 1..Len(rels) : issue(i)
                      THEN "confirm_with_user" ELSE "store_feature"
            /\ (Len(rels) = 1 /\ rels[1].relationship_type = "duplicate"
                    /\ rels[1].confidence_score = 85) => node = "confirm_with_user"
            /\ (Len(rels) = 1 /\ rels[1].relationship_type = "builds_on"
                    /\ rels[1].confidence_score = 75) => node = "store_feature"

C30_Witness ==
    /\ JustRan("classify_relationships") /\ node = "confirm_with_user"
    /\ Len(state.potential_relationships) = 2
    /\ state.potential_relationships[1].relationship_type = "builds_on"
    /\ state.potential_relationships[1].confidence_score = 85
    /\ state.potential_relationships[2].relationship_type = "conflicts_with"
    /\ state.potential_relationships[2].confidence_score = 80

\* C31: search_similar is always followed by classify_relationships; a search
\* whose query failed leaves an empty candidate list, and the step after it
\* finds no relationship and hands the run to store_feature (not to
\* confirm_with_user) with retry_count as it was.
C31_FailedSearchGoesOnToStore ==
    /\ [](JustRan("search_similar") =>
            /\ node = "classify_relationships"
            /\ workflow.failed = "similarity" => state.similar_features = << >>)
    /\ [][(JustRan("search_similar") /\ workflow.failed = "similarity") =>
            /\ state'.potential_relationships = << >>
            /\ node' = "store_feature"
            /\ state'.retry_count = state.retry_count]_vars

C31_Witness ==
    /\ JustRan("search_similar") /\ workflow.failed = "similarity"
    /\ node = "classify_relationships"
    /\ state.retry_count = 1 /\ workflow.candidates = 1
    /\ state.potential_relationships # << >>

\* C32: the edge out of confirm_with_user is decided on an answer the user
\* gave: the user has been asked before the edge is taken, approval leads to
\* store_feature, and rejection with retries left leads to handle_retry.
C32_UserDecidesEdgeOutOfConfirm ==
    JustRan("confirm_with_user") =>
        /\ workflow.choice \in {"1", "2"}
        /\ UserChoice(workflow.choice) = "proceed" => node = "store_feature"
        /\ (UserChoice(workflow.choice) = "cancel" /\ state.retry_count < state.max_retries)
               => node = "handle_retry"

----------------------------------------------------------------------------
(* Properties of the keyword classification of the semantic search engine *)

KeywordFree(text) ==
    /\ ~ContainsAny(Lower(text), EnhancementKeywords)
    /\ ~ContainsAny(Lower(text), FixKeywords)

BothEnhance(text1, text2) ==
    /\ ContainsAny(Lower(text1), EnhancementKeywords)
    /\ ContainsAny(Lower(text2), EnhancementKeywords)

\* C33 as stated: two texts without keywords are classified by the thresholds
\* 0.9 and 0.8, and a first text containing a fix keyword is classified fixes
\* for every similarity below 0.9.
C33_FixKeywordGivesFixes ==
    probe.result # <<"not called">> =>
        /\ (KeywordFree(probe.text1) /\ KeywordFree(probe.text2)) =>
               probe.result = IF probe.similarity_score >= 90 THEN Some("duplicate")
                              ELSE IF probe.similarity_score >= 80 THEN Some("builds_on")
                              ELSE None
        /\ (ContainsAny(Lower(probe.text1), FixKeywords) /\ probe.similarity_score < 90) =>
               probe.result = Some("fixes")

\* C33: two texts without keywords are classified duplicate for a similarity
\* of 0.9 or more, builds_on from 0.8 up to but not including 0.9 and nothing
\* below 0.8; below 0.9 a first text containing a fix keyword is classified
\* fixes unless both texts contain an enhancement keyword, and builds_on if
\* they do.
C33_KeywordsAndThresholds ==
    probe.result # <<"not called">> =>
        /\ (KeywordFree(probe.text1) /\ KeywordFree(probe.text2)) =>
               probe.result = IF probe.similarity_score >= 90 THEN Some("duplicate")
                              ELSE IF probe.similarity_score >= 80 THEN Some("builds_on")
                              ELSE None
        /\ (ContainsAny(Lower(probe.text1), FixKeywords) /\ probe.similarity_score < 90) =>
               probe.result = IF BothEnhance(probe.text1, probe.text2)
                              THEN Some("builds_on") ELSE Some("fixes")

C33_Witness ==
    /\ probe.result = Some("fixes")
    /\ ContainsAny(Lower(probe.text1), FixKeywords)
    /\ ~ContainsAny(probe.text1, FixKeywords)
    /\ KeywordFree(probe.text2)
    /\ probe.similarity_score = 75

----------------------------------------------------------------------------
(* Properties of the retry budget and of the user's approval inside the graph *)

\* C34: at validate_request and at confirm_with_user retry_count is below
\* max_retries, so neither node is followed by the end of the run, and a run
\* that has used up its retries ended out of handle_retry.
C34_RetriesLeftAtValidateAndConfirm ==
    /\ node \in {"validate_request", "confirm_with_user"} =>
           state.retry_count < state.max_retries
    /\ (JustRan("validate_request") \/ JustRan("confirm_with_user")) => node # END
    /\ (node = END /\ state.retry_count >= state.max_retries) => JustRan("handle_retry")

C34_Witness ==
    /\ node = END /\ JustRan("handle_retry")
    /\ state.retry_count = state.max_retries
    /\ \E i \in 1..Len(workflow.trail) : workflow.trail[i] = "confirm_with_user"

\* C35: while the graph runs user_approved stays false; confirm_with_user is
\* always followed by handle_retry, and store_feature runs only directly after
\* classify_relationships.
C35_NoApprovalInsideTheGraph ==
    /\ node # "exit" => ~state.user_approved
    /\ JustRan("confirm_with_user") => node = "handle_retry"
    /\ JustRan("store_feature") =>
           /\ Len(workflow.trail) > 1
           /\ workflow.trail[Len(workflow.trail) - 1] = "classify_relationships"

C35_Witness ==
    /\ JustRan("store_feature")
    /\ \E i \in 1..Len(workflow.trail) : workflow.trail[i] = "confirm_with_user"

----------------------------------------------------------------------------
(* Properties of the confirmation put by the command line *)

\* How often a node ran in the current run
TimesRan(name) == Cardinality({i \in 1..Len(workflow.trail) : workflow.trail[i] = name})

\* The graph ended at stage user_confirmation, or the command is at its prompt
AtConfirmation ==
    \/ node = END /\ state.current_stage = "user_confirmation"
    \/ node = "user_confirmation"

----------------------------------------------------------------------------
(* Properties of the final state and of what the store step hands the ledger *)

\* C37: in the state a run ends with, and in the state the command is left
\* with, stored_successfully implies an empty error_message and a feature_id,
\* and not stored_successfully implies no feature_id.
C37_SuccessExcludesError ==
    node \in {END, "user_confirmation", "exit"} =>
        /\ state.stored_successfully =>
               (state.error_message = None /\ state.feature_id # None)
        /\ ~state.stored_successfully => state.feature_id = None

C37_Witness ==
    /\ node = "exit" /\ workflow.stores = 1
    /\ ~state.stored_successfully /\ state.error_message # None
    /\ state.feature_id = None
    /\ features # workflow.before[1]

\* C38: every relationship type in the confirmed relationships handed to the
\* store step is a relation type of the ledger, and the table the store step
\* writes them to is a table of the ledger.
C38_ConfirmedRelationshipsFitSchema ==
    (node = "exit" /\ UserChoice(workflow.choice) = "proceed"
                   /\ DOMAIN state.relationship_confirmations # {}) =>
        /\ \A id \in DOMAIN state.relationship_confirmations :
               state.relationship_confirmations[id] \in RelationTypes
        /\ "feature_relationships" \in Tables

----------------------------------------------------------------------------
(* Properties of the feature ids of a long ledger *)

\* C39: every id add_feature returns is the project initials, a hyphen and
\* exactly three digits, is accepted by validate_feature_id, and the feature
\* stored under it is shown by 'feature show'.
C39_IdsHaveThreeDigitsAndShow ==
    probe.last_feature # None =>
        LET feature_id == probe.last_feature[1]
            n == Len(probe.initials)
        IN  /\ Len(feature_id) = n + 4
            /\ SubSeq(feature_id, 1, n + 1) = probe.initials \o <<"-">>
            /\ \A i \in (n + 2)..Len(feature_id) : IsDigit(feature_id[i])
            /\ ValidateFeatureId(feature_id)
            /\ probe.exit_code = 0

====
